---- MODULE Spec2Model ----
(***************************************************************************)
(* Model of the digital-elevation-model scripts:                           *)
(*   - get_elevation (pyDEM_function.py): geo coordinate -> pixel index    *)
(*     -> nearest raster cell, one record per station;                     *)
(*   - the merge step of run_PyDEM_London_ASTGDEMv20.py (In[4]): the       *)
(*     reformed tiles of latitude band 51 concatenated column-wise;        *)
(*   - the trim step of the same script (In[3]): every source tile loses   *)
(*     its last row and column and is written to the reformed folder;      *)
(*   - transprojcnvt_dem and the reprojection steps that call it;          *)
(*   - get_file_names, with file names as sequences of characters;         *)
(*   - write_dem, with the outcomes of the GDAL calls it makes;            *)
(*   - the order of the steps of the three pipeline scripts;               *)
(*   - the copy of get_elevation in run_PyDEM_London.py.                   *)
(*                                                                         *)
(* Numbers.  Geographic quantities (geotransform terms, latitudes,         *)
(* longitudes) are integers counting half units, so the geotransform       *)
(* (0, 1, 0, 10, 0, -1) is <<0, 2, 0, 20, 0, -2>> and latitude 9.5 is 19.  *)
(* A quotient is kept exact as numerator/denominator; float rounding       *)
(* error of the division is outside the model.  round() is Python 3's      *)
(* (the scripts use print() as a function): ties go to the even integer.   *)
(* Tuples are 1-based: gt[1] is the code's gt[0], ..., gt[6] is gt[5].     *)
(* Array rows and columns are 0-based as in the code.                      *)
(***************************************************************************)
EXTENDS Integers, Sequences, FiniteSets, TLC

VARIABLES
    \* ---- get_elevation ----
    dem_gcs,       \* the opened dataset: [array, gt, nodata, rows, cols]
    site_latlng,   \* the caller's coordinate array: sequence of <<lat, lng>>
    pc,            \* "call" | "loop" | "done" | "fault"; "idle" outside Spec
    gdal_array,    \* the float copy of the array with sentinel cells -> NaN
    i,             \* loop index of "for i in range(N_site)"
    site_ele,      \* the N_site x 6 result array being filled
    returned,      \* the value get_elevation returned (pc = "done")
    earlier,       \* what an earlier call with the same arguments returned
    \* ---- merge step ----
    reform,        \* the reformed-tile folder: set of files [name, rows, cols]
    mpc,           \* "list" | "loop" | "shape" | "georef" | "write" | "done" | "fault"; "idle"
    file_names,    \* sorted listing of the reformed folder
    k,             \* position of the merge loop in file_names (1-based)
    dem_merge,     \* the array being assembled: [dim, rows, cols]
    lt,            \* georeference read from file_names[0]
    merged,        \* the merged DEM file: [exists, rows, cols, gt, proj]
    \* ---- trim step ----
    source,        \* the source-tile folder: set of files with their cells
    nan_as,        \* what this build writes for a NaN on an unsigned 16-bit band
    rerun,         \* what an earlier run of trim and merge left behind
    \* ---- reprojection steps ----
    fs,            \* the DEM folder: path -> file [exists, valid, epsg, made]
    fs0,           \* the DEM folder as it was before the run
    script,        \* the script that runs
    step,          \* number of the reprojection step of the script (1-based)
    wpc,           \* "begin" | "remove" | "warp" | "return" | "after" | "end" | "fault"; "idle"
    args,          \* the step's [dem_in, epsg_in, dem_out, epsg_out]
    cmds,          \* the gdalwarp invocations so far, each with its exit status
    ret,           \* what the last call of transprojcnvt_dem returned
    \* ---- get_file_names ----
    entries,       \* the folder as os.listdir gives it: sequence of [name, isfile]
    file_type,     \* the file type asked for
    gpc,           \* "list" | "loop" | "done"; "idle"
    file_list,     \* os.listdir, then its regular files
    gi,            \* position of the loop in file_list (1-based)
    found,         \* the list file_names being built and returned
    \* ---- write_dem ----
    d_array,       \* the array argument: [ndim, bands, rows, cols]
    d_size,        \* <<d_row, d_col>>: the arguments, then the array's for a 3-D array
    d_band,        \* the band count: the argument, then the array's for a 3-D array
    data,          \* driver.Create's dataset: [created, georef, written, failed]
    wi,            \* loop index of "for i in range(d_band)"
    wret,          \* the value write_dem returned, -1 while it has not
    wdpc,          \* "shape" | "create" | "georef" | "loop" | "done" | "fault"; "idle"
    \* ---- the pipeline of a script ----
    pl_script,     \* the script that runs
    pl_step,       \* number of the next step of the script (1-based)
    pl_files,      \* file or folder -> "absent" | "source" | "stale" | "fresh"
    pl_read        \* what the steps so far read: <<step, file, state of the file>>

vars == <<dem_gcs, site_latlng, pc, gdal_array, i, site_ele, returned, earlier,
          reform, mpc, file_names, k, dem_merge, lt, merged,
          source, nan_as, rerun,
          fs, fs0, script, step, wpc, args, cmds, ret,
          entries, file_type, gpc, file_list, gi, found,
          d_array, d_size, d_band, data, wi, wret, wdpc,
          pl_script, pl_step, pl_files, pl_read>>

samplerVars == <<dem_gcs, site_latlng, pc, gdal_array, i, site_ele, returned, earlier>>
mergeVars == <<reform, mpc, file_names, k, dem_merge, lt, merged>>
trimVars == <<source, nan_as, rerun>>
warpVars == <<fs, fs0, script, step, wpc, args, cmds, ret>>
listVars == <<entries, file_type, gpc, file_list, gi, found>>
writeVars == <<d_array, d_size, d_band, data, wi, wret, wdpc>>
pipeVars == <<pl_script, pl_step, pl_files, pl_read>>

\* What the steps of one part of the model leave alone.
offSampler == <<mergeVars, trimVars, warpVars, listVars, writeVars, pipeVars>>
offMerge == <<samplerVars, trimVars, warpVars, listVars, writeVars, pipeVars>>
offTrim == <<samplerVars, warpVars, listVars, writeVars, pipeVars>>
offWarp == <<samplerVars, mergeVars, trimVars, listVars, writeVars, pipeVars>>
offList == <<samplerVars, mergeVars, trimVars, warpVars, writeVars, pipeVars>>
offWrite == <<samplerVars, mergeVars, trimVars, warpVars, listVars, pipeVars>>
offPipe == <<samplerVars, mergeVars, trimVars, warpVars, listVars, writeVars>>

-----------------------------------------------------------------------------
(* Bounds of the model *)

NRows == 2        \* rows of the sampled raster
NCols == 3        \* columns of the sampled raster
MaxSites == 2     \* longest coordinate list
MaxTiles == 3     \* most files in the reformed-tile folder
MaxFiles == 3     \* most entries of the folder get_file_names lists
MaxBands == 2     \* most bands write_dem is asked to write

-----------------------------------------------------------------------------
(* Values *)

\* A float cell: a number or NaN.
Num(v) == [nan |-> FALSE, v |-> v]
NaN == [nan |-> TRUE, v |-> 0]

\* GetNoDataValue(): None, or the sentinel.
NoSentinel == [set |-> FALSE, v |-> 0]
Sentinel(v) == [set |-> TRUE, v |-> v]

Rows == 0 .. (NRows - 1)
Cols == 0 .. (NCols - 1)

-----------------------------------------------------------------------------
(* Python and numpy primitives used by get_elevation *)

\* A plausible slip: ties rounded away from zero (Python 2's round()).
PyRoundHalfAway(num, den) ==
    LET n == IF den < 0 THEN -num ELSE num
        d == IF den < 0 THEN -den ELSE den
        q == n \div d
        r == n % d
    IN  IF 2 * r < d THEN q
        ELSE IF 2 * r > d THEN q + 1
        ELSE IF q >= 0 THEN q + 1 ELSE q

\* int(round(num / den)), den # 0: nearest integer, ties to the even one.
PyRound(num, den) ==
    LET n == IF den < 0 THEN -num ELSE num
        d == IF den < 0 THEN -den ELSE den
        q == n \div d          \* floor of the quotient
        r == n % d             \* 0 <= r < d
    IN  IF 2 * r < d THEN q
        ELSE IF 2 * r > d THEN q + 1
        ELSE IF q % 2 = 0 THEN q ELSE q + 1

\* A plausible slip: the row rotation term added to the pixel width.
XpixelOfRotated(gt, Xgeo) == PyRound(Xgeo - gt[1], gt[2] + gt[3])

\* Xpixel = int(round((Xgeo[i] - gt[0]) / gt[1]))
XpixelOf(gt, Xgeo) == PyRound(Xgeo - gt[1], gt[2])

\* A plausible slip: the pixel height taken as a positive number.
YlineOfPositiveHeight(gt, Ygeo) ==
    PyRound(Ygeo - gt[4], IF gt[6] < 0 THEN -gt[6] ELSE gt[6])

\* Yline = int(round((Ygeo[i] - gt[3]) / gt[5]))
YlineOf(gt, Ygeo) == PyRound(Ygeo - gt[4], gt[6])

\* A plausible slip: an index past the end clamped to the last element.
AxisIndexClamped(idx, n) ==
    IF idx < -n THEN [ok |-> FALSE, at |-> 0]
    ELSE IF idx < 0 THEN [ok |-> TRUE, at |-> idx + n]
    ELSE IF idx >= n THEN [ok |-> TRUE, at |-> n - 1]
    ELSE [ok |-> TRUE, at |-> idx]

\* numpy's integer index idx on an axis of length n: accepted iff
\* -n <= idx < n, a negative index counting from the end of the axis;
\* anything else raises IndexError.
AxisIndex(idx, n) ==
    IF idx < -n \/ idx >= n THEN [ok |-> FALSE, at |-> 0]
    ELSE IF idx < 0 THEN [ok |-> TRUE, at |-> idx + n]
    ELSE [ok |-> TRUE, at |-> idx]

\* A plausible slip: the array indexed [column, row].
LookupTransposed(array, nrows, ncols, Yline, Xpixel) ==
    LET r == AxisIndex(Xpixel, nrows)
        c == AxisIndex(Yline, ncols)
    IN  IF r.ok /\ c.ok
        THEN [ok |-> TRUE, ele |-> array[r.at][c.at]]
        ELSE [ok |-> FALSE, ele |-> NaN]

\* gdal_array[Yline, Xpixel]: the cell, or an IndexError (ok = FALSE).
Lookup(array, nrows, ncols, Yline, Xpixel) ==
    LET r == AxisIndex(Yline, nrows)
        c == AxisIndex(Xpixel, ncols)
    IN  IF r.ok /\ c.ok
        THEN [ok |-> TRUE, ele |-> array[r.at][c.at]]
        ELSE [ok |-> FALSE, ele |-> NaN]

\* A plausible slip: the sentinel cells left as they are.
MaskNoDataOff(array, nodataval) ==
    [r \in DOMAIN array |-> [c \in DOMAIN array[r] |-> Num(array[r][c])]]

\* gdal_array = ReadAsArray().astype(float); gdal_array[gdal_array == nodataval] = nan
\* (nodataval None compares unequal to every cell).
MaskNoData(array, nodataval) ==
    [r \in DOMAIN array |->
        [c \in DOMAIN array[r] |->
            IF nodataval.set /\ array[r][c] = nodataval.v
            THEN NaN
            ELSE Num(array[r][c])]]

\* A plausible slip: the sentinel cells cleared in the raster itself.
RasterClearedInPlace(array, nodataval) ==
    [r \in DOMAIN array |->
        [c \in DOMAIN array[r] |->
            IF nodataval.set /\ array[r][c] = nodataval.v THEN 0 ELSE array[r][c]]]

\* The cells of the opened dataset after "ReadAsArray().astype(np.float)" and
\* the masking: both work on a new array, the dataset keeps its cells.
RasterAfterRead(array, nodataval) == array

\* A plausible slip: the serial number counted from 1.
SiteRecordOneBased(idx, lat, lng, row, col, ele) ==
    [index |-> idx + 1, lat |-> lat, lng |-> lng, row |-> row, col |-> col, ele |-> ele]

\* One row of site_ele: columns 0..5 of the result array.
SiteRecord(idx, lat, lng, row, col, ele) ==
    [index |-> idx, lat |-> lat, lng |-> lng, row |-> row, col |-> col, ele |-> ele]

\* np.zeros((N_site, 6))
ZeroRecord == SiteRecord(0, 0, 0, 0, 0, Num(0))

\* A plausible slip: the loop body run at least once.
N_siteAtLeastOne(latlng) == IF Len(latlng) = 0 THEN 1 ELSE Len(latlng)

\* N_site = site_latlng.shape[0]
N_site(latlng) == Len(latlng)

-----------------------------------------------------------------------------
(* Inputs of get_elevation *)

\* Elevation grids of NRows x NCols cells: every cell distinct (cell [0, 0]
\* is a true zero); the same with a void last column; zeros on a void ground.
GridDistinct == [r \in Rows |-> [c \in Cols |-> r * NCols + c]]
GridVoidColumn ==
    [r \in Rows |-> [c \in Cols |-> IF c = NCols - 1 THEN -9999 ELSE r * NCols + c]]
GridVoidGround == [r \in Rows |-> [c \in Cols |-> IF r = c THEN 0 ELSE -9999]]

\* Raster contents: a grid with the sentinel GetNoDataValue() reports for it.
Contents ==
    { <<GridDistinct, NoSentinel>>,
      <<GridDistinct, Sentinel(0)>>,
      <<GridVoidColumn, NoSentinel>>,
      <<GridVoidColumn, Sentinel(-9999)>>,
      <<GridVoidGround, Sentinel(-9999)>> }

\* Geotransforms in half units: (0, 1, 0, 10, 0, -1); a raster of half-unit
\* pixels; a raster with non-zero rotation terms.
GeoTransforms ==
    { <<0, 2, 0, 20, 0, -2>>,
      <<-3, 1, 0, 7, 0, -1>>,
      <<0, 1, 1, 20, 1, -2>> }

Datasets ==
    { [array |-> c[1], gt |-> t, nodata |-> c[2], rows |-> NRows, cols |-> NCols] :
        c \in Contents, t \in GeoTransforms }

\* Offsets from the raster origin, in half units: below the wrap-around range
\* of an axis of n cells, just before the origin, the origin, just after it,
\* and n itself.
Offsets(n) == {-(n + 1), -1, 0, 1, n}

\* Stations around the raster, <<latitude, longitude>>: every offset on one
\* axis, the other axis at the origin or just after it.
SitesOf(gt) ==
    { <<gt[4] - dr, gt[1] + dc>> : dr \in Offsets(NRows), dc \in {0, 1} }
    \cup { <<gt[4] - dr, gt[1] + dc>> : dr \in {0, 1}, dc \in Offsets(NCols) }

SeqsUpTo(S, n) == UNION { [1 .. m -> S] : m \in 0 .. n }

-----------------------------------------------------------------------------
(* get_elevation *)

MergeIdle ==
    /\ reform = {}
    /\ mpc = "idle"
    /\ file_names = <<>>
    /\ k = 0
    /\ dem_merge = [dim |-> 1, rows |-> 0, cols |-> <<>>]
    /\ lt = [gt |-> <<>>, proj |-> ""]
    /\ merged = [exists |-> FALSE, rows |-> 0, cols |-> <<>>, gt |-> <<>>, proj |-> ""]

\* No earlier run.
NoRerun == [set |-> FALSE, reform |-> {}, merged |-> <<>>, ended |-> ""]

TrimIdle ==
    /\ source = {}
    /\ nan_as = 0
    /\ rerun = NoRerun

WriteIdle ==
    /\ d_array = <<>>
    /\ d_size = <<>>
    /\ d_band = 0
    /\ data = <<>>
    /\ wi = 0
    /\ wret = -1
    /\ wdpc = "idle"

PipeIdle ==
    /\ pl_script = "none"
    /\ pl_step = 0
    /\ pl_files = <<>>
    /\ pl_read = {}

WarpIdle ==
    /\ fs = <<>>
    /\ fs0 = <<>>
    /\ script = "none"
    /\ step = 0
    /\ wpc = "idle"
    /\ args = <<>>
    /\ cmds = <<>>
    /\ ret = -1

ListIdle ==
    /\ entries = <<>>
    /\ file_type = <<>>
    /\ gpc = "idle"
    /\ file_list = <<>>
    /\ gi = 0
    /\ found = <<>>

\* No earlier call.
NoEarlier == [set |-> FALSE, val |-> <<>>]

\* The caller has opened a dataset and built the coordinate array.
Init ==
    /\ dem_gcs \in Datasets
    /\ site_latlng \in SeqsUpTo(SitesOf(dem_gcs.gt), MaxSites)
    /\ pc = "call"
    /\ gdal_array = <<>>
    /\ i = 0
    /\ site_ele = <<>>
    /\ returned = <<>>
    /\ earlier = NoEarlier
    /\ MergeIdle
    /\ TrimIdle
    /\ WarpIdle
    /\ ListIdle
    /\ WriteIdle
    /\ PipeIdle

\* Lines 136-150: read the array, mask the sentinel, allocate the result.
ReadRaster ==
    /\ pc = "call"
    /\ gdal_array' = MaskNoData(dem_gcs.array, dem_gcs.nodata)
    /\ site_ele' = [n \in 1 .. N_site(site_latlng) |-> ZeroRecord]
    /\ i' = 0
    /\ pc' = "loop"
    /\ dem_gcs' = [dem_gcs EXCEPT !.array = RasterAfterRead(dem_gcs.array, dem_gcs.nodata)]
    /\ UNCHANGED <<site_latlng, returned, earlier>>
    /\ UNCHANGED offSampler

\* Lines 151-179: one pass of the loop body.  Xgeo[i] outside the coordinate
\* array and gdal_array[Yline, Xpixel] outside the grid raise IndexError; the
\* first five fields of row i are stored before the lookup is evaluated.
SampleSite ==
    /\ pc = "loop"
    /\ i < N_site(site_latlng)
    /\ IF i >= Len(site_latlng)
       THEN /\ pc' = "fault"
            /\ UNCHANGED <<i, site_ele>>
       ELSE LET Ygeo == site_latlng[i + 1][1]
                Xgeo == site_latlng[i + 1][2]
                Xpixel == XpixelOf(dem_gcs.gt, Xgeo)
                Yline == YlineOf(dem_gcs.gt, Ygeo)
                cell == Lookup(gdal_array, dem_gcs.rows, dem_gcs.cols, Yline, Xpixel)
            IN  IF cell.ok
                THEN /\ site_ele' = [site_ele EXCEPT ![i + 1] =
                                        SiteRecord(i, Ygeo, Xgeo, Yline, Xpixel, cell.ele)]
                     /\ i' = i + 1
                     /\ pc' = "loop"
                ELSE /\ site_ele' = [site_ele EXCEPT ![i + 1] =
                                        SiteRecord(i, Ygeo, Xgeo, Yline, Xpixel,
                                                   site_ele[i + 1].ele)]
                     /\ i' = i
                     /\ pc' = "fault"
    /\ UNCHANGED <<dem_gcs, site_latlng, gdal_array, returned, earlier>>
    /\ UNCHANGED offSampler

\* Line 181: return site_ele.
ReturnSiteEle ==
    /\ pc = "loop"
    /\ i >= N_site(site_latlng)
    /\ returned' = site_ele
    /\ pc' = "done"
    /\ UNCHANGED <<dem_gcs, site_latlng, gdal_array, i, site_ele, earlier>>
    /\ UNCHANGED offSampler

Next == ReadRaster \/ SampleSite \/ ReturnSiteEle

Spec == Init /\ [][Next]_vars

\* The caller calls get_elevation once more with the same dataset and the
\* same coordinate array (as the scripts do for one raster after another),
\* keeping the first result.
CallAgain ==
    /\ pc = "done"
    /\ ~earlier.set
    /\ earlier' = [set |-> TRUE, val |-> returned]
    /\ pc' = "call"
    /\ gdal_array' = <<>>
    /\ i' = 0
    /\ site_ele' = <<>>
    /\ returned' = <<>>
    /\ UNCHANGED <<dem_gcs, site_latlng>>
    /\ UNCHANGED offSampler

\* The forward mapping of the geotransform (comment of lines 153-154):
\* <<latitude, longitude>> of cell (row, col).
Forward(gt, row, col) ==
    <<gt[4] + col * gt[5] + row * gt[6], gt[1] + col * gt[2] + row * gt[3]>>

\* Geotransforms of the round trip: those of GeoTransforms, the raster
\* (0, 0.5, 0, 10, 0, -1) that differs from the rotated one in the rotation
\* terms only, and a raster with negative pixel width and positive height.
RoundTripTransforms ==
    GeoTransforms \cup { <<0, 1, 0, 20, 0, -2>>, <<4, -2, 0, -6, 0, 1>> }

\* The caller samples the coordinates the forward mapping gives for a list
\* of cells of the raster.
InitRoundTrip ==
    /\ \E c \in Contents, t \in RoundTripTransforms :
          dem_gcs = [array |-> c[1], gt |-> t, nodata |-> c[2],
                     rows |-> NRows, cols |-> NCols]
    /\ \E cells \in SeqsUpTo(Rows \X Cols, MaxSites) :
          site_latlng = [j \in 1 .. Len(cells) |->
                            Forward(dem_gcs.gt, cells[j][1], cells[j][2])]
    /\ pc = "call"
    /\ gdal_array = <<>>
    /\ i = 0
    /\ site_ele = <<>>
    /\ returned = <<>>
    /\ earlier = NoEarlier
    /\ MergeIdle
    /\ TrimIdle
    /\ WarpIdle
    /\ ListIdle
    /\ WriteIdle
    /\ PipeIdle

SpecRoundTrip == InitRoundTrip /\ [][Next]_vars

NextTwice == ReadRaster \/ SampleSite \/ ReturnSiteEle \/ CallAgain

SpecTwice == Init /\ [][NextTwice]_vars

-----------------------------------------------------------------------------
(* Properties of get_elevation *)

Abs(x) == IF x < 0 THEN -x ELSE x

\* idx is the integer nearest to num/den; a quotient exactly halfway between
\* two integers goes to the even one.
RoundsTo(idx, num, den) ==
    LET e == 2 * (num - idx * den)
    IN  \/ Abs(e) < Abs(den)
        \/ Abs(e) = Abs(den) /\ idx % 2 = 0

\* num/den lies exactly halfway between two integers.
Halfway(num, den) ==
    /\ (2 * num) % Abs(den) = 0
    /\ ((2 * num) \div Abs(den)) % 2 = 1

NorthUp(gt) == gt[3] = 0 /\ gt[5] = 0

\* The rows of site_ele the loop has completed.
Completed == IF pc = "call" THEN {} ELSE 1 .. i

\* The raster cell [r, c] as get_elevation is to report it.
Reported(r, c) ==
    IF dem_gcs.nodata.set /\ dem_gcs.array[r][c] = dem_gcs.nodata.v
    THEN NaN
    ELSE Num(dem_gcs.array[r][c])

\* C1: on a raster without rotation terms, a coordinate whose nearest cell
\* (r, c) lies inside the grid never faults, and its record reports row r,
\* column c and the content of raster cell [r, c].
C1_NearestCell ==
    NorthUp(dem_gcs.gt) =>
        \A j \in 1 .. Len(site_latlng) : \A r \in Rows, c \in Cols :
            ( /\ RoundsTo(c, site_latlng[j][2] - dem_gcs.gt[1], dem_gcs.gt[2])
              /\ RoundsTo(r, site_latlng[j][1] - dem_gcs.gt[4], dem_gcs.gt[6]) )
            => /\ ~(pc = "fault" /\ i = j - 1)
               /\ j \in Completed =>
                    /\ site_ele[j].row = r
                    /\ site_ele[j].col = c
                    /\ site_ele[j].ele = Reported(r, c)

C1_Witness ==
    /\ pc = "done"
    /\ NorthUp(dem_gcs.gt)
    /\ dem_gcs.array[1][0] # dem_gcs.array[0][1]
    /\ \E j \in 1 .. Len(returned) :
          /\ returned[j].row = 1 /\ returned[j].col = 0
          /\ returned[j].ele = Num(dem_gcs.array[1][0])

\* C2: in the raster with geotransform (0, 1, 0, 10, 0, -1) and sentinel
\* -9999 the coordinate (9.5, 0.5) is reported at row 0, column 0 with the
\* content of grid[0][0]; and on either axis an offset exactly halfway
\* between two pixels is reported at the even one.
C2_HalfToEvenBothAxes ==
    \A j \in Completed :
        LET lat == site_latlng[j][1]
            lng == site_latlng[j][2]
            gt == dem_gcs.gt
        IN  /\ ( /\ gt = <<0, 2, 0, 20, 0, -2>>
                 /\ dem_gcs.nodata = Sentinel(-9999)
                 /\ lat = 19 /\ lng = 1 )
               => /\ site_ele[j].row = 0
                  /\ site_ele[j].col = 0
                  /\ site_ele[j].ele = Num(dem_gcs.array[0][0])
            /\ Halfway(lng - gt[1], gt[2])
               => /\ site_ele[j].col % 2 = 0
                  /\ Abs(2 * (lng - gt[1]) - 2 * site_ele[j].col * gt[2]) = Abs(gt[2])
            /\ Halfway(lat - gt[4], gt[6])
               => /\ site_ele[j].row % 2 = 0
                  /\ Abs(2 * (lat - gt[4]) - 2 * site_ele[j].row * gt[6]) = Abs(gt[6])

C2_Witness ==
    /\ pc = "done"
    /\ dem_gcs.gt = <<0, 2, 0, 20, 0, -2>>
    /\ dem_gcs.nodata = Sentinel(-9999)
    /\ \E j \in 1 .. Len(returned) :
          /\ returned[j].lat = 19 /\ returned[j].lng = 1
          /\ returned[j].row = 0 /\ returned[j].col = 0
    /\ \E j \in 1 .. Len(returned) :
          /\ Halfway(returned[j].lng, 2)
          /\ returned[j].col = 2

\* C3 (as claimed): a record is only ever completed for a coordinate whose
\* computed row and column lie in [0, rowCount) x [0, colCount); any other
\* coordinate faults.
C3_OutOfBoundsAlwaysFaults ==
    \A j \in Completed :
        /\ site_ele[j].row \in Rows
        /\ site_ele[j].col \in Cols

\* C4: a coordinate whose row rounds to exactly rowCount, or whose column
\* rounds to exactly colCount, never gets a completed record, and the call
\* never returns.
C4_CountBoundaryRejected ==
    \A j \in 1 .. Len(site_latlng) :
        ( \/ RoundsTo(dem_gcs.rows, site_latlng[j][1] - dem_gcs.gt[4], dem_gcs.gt[6])
          \/ RoundsTo(dem_gcs.cols, site_latlng[j][2] - dem_gcs.gt[1], dem_gcs.gt[2]) )
        => /\ j \notin Completed
           /\ pc # "done"
           /\ returned = <<>>

C4_Witness ==
    /\ pc = "fault"
    /\ i = 1
    /\ site_ele[2].row = dem_gcs.rows
    /\ site_ele[2].col \in Cols

\* C5: a record whose looked-up cell holds the no-data sentinel reports NaN,
\* and one whose cell holds 0, 0 not being the sentinel, reports the number 0.
C5_SentinelIsNaN ==
    \A j \in Completed :
        LET r == (site_ele[j].row + dem_gcs.rows) % dem_gcs.rows
            c == (site_ele[j].col + dem_gcs.cols) % dem_gcs.cols
            cell == dem_gcs.array[r][c]
        IN  /\ (dem_gcs.nodata.set /\ cell = dem_gcs.nodata.v) => site_ele[j].ele = NaN
            /\ (cell = 0 /\ dem_gcs.nodata # Sentinel(0)) => site_ele[j].ele = Num(0)

C5_Witness ==
    /\ pc = "done"
    /\ dem_gcs.nodata = Sentinel(-9999)
    /\ \E j \in 1 .. Len(returned) : returned[j].ele = NaN
    /\ \E j \in 1 .. Len(returned) : returned[j].ele = Num(0)

\* Coordinate j rounds to a cell inside the grid.
InBounds(j) ==
    \E r \in Rows, c \in Cols :
        /\ RoundsTo(r, site_latlng[j][1] - dem_gcs.gt[4], dem_gcs.gt[6])
        /\ RoundsTo(c, site_latlng[j][2] - dem_gcs.gt[1], dem_gcs.gt[2])

\* C6: a call on in-bounds coordinates does not fault, and a call that
\* returns, returns one record per input coordinate, record j carrying
\* serial number j (from 0), the latitude and longitude of input coordinate
\* j, and the row, column and elevation of that coordinate.
C6_OrderPreserving ==
    /\ (\A j \in 1 .. Len(site_latlng) : InBounds(j)) => pc # "fault"
    /\ pc = "done" =>
        /\ Len(returned) = Len(site_latlng)
        /\ \A j \in 1 .. Len(returned) :
              LET rec == returned[j]
                  r == (rec.row + dem_gcs.rows) % dem_gcs.rows
                  c == (rec.col + dem_gcs.cols) % dem_gcs.cols
              IN  /\ rec.index = j - 1
                  /\ rec.lat = site_latlng[j][1]
                  /\ rec.lng = site_latlng[j][2]
                  /\ RoundsTo(rec.row, site_latlng[j][1] - dem_gcs.gt[4], dem_gcs.gt[6])
                  /\ RoundsTo(rec.col, site_latlng[j][2] - dem_gcs.gt[1], dem_gcs.gt[2])
                  /\ rec.ele = Reported(r, c)

C6_Witness ==
    /\ pc = "done"
    /\ Len(returned) = MaxSites
    /\ returned[1].row \in Rows /\ returned[1].col \in Cols
    /\ returned[2].row \in Rows /\ returned[2].col \in Cols
    /\ returned[1].lat # returned[2].lat
    /\ returned[1].lng # returned[2].lng

\* C7: with an empty coordinate array the call does not fault and returns
\* an empty result.
C7_EmptyInEmptyOut ==
    site_latlng = <<>> =>
        /\ pc # "fault"
        /\ pc = "done" => returned = <<>>
        /\ pc # "call" => site_ele = <<>>

C7_Witness ==
    /\ pc = "done"
    /\ site_latlng = <<>>
    /\ returned = <<>>

-----------------------------------------------------------------------------
(* The merge step: file names *)

\* A tile file name, e.g. "ASTGTM2_N51W001_dem.tif", is kept as its parts:
\* [product |-> "ASTGTM2", lat |-> 51, ew |-> "W", lon |-> 1].  The latitude
\* is two digits and the longitude three, so digit strings compare as the
\* numbers do.
TileName(p, la, e, lo) == [product |-> p, lat |-> la, ew |-> e, lon |-> lo]

\* Character order of the parts that differ between names: 'A' < 'E' for the
\* first letter of the product, 'E' < 'W' for the hemisphere letter.
ProductRank(p) == IF p = "ASTGTM2" THEN 0 ELSE 1
EwRank(e) == IF e = "E" THEN 0 ELSE 1

\* a > b as Python compares the two name strings.
NameGreater(a, b) ==
    LET ka == <<ProductRank(a.product), a.lat, EwRank(a.ew), a.lon>>
        kb == <<ProductRank(b.product), b.lat, EwRank(b.ew), b.lon>>
    IN  \E n \in 1 .. 4 :
            /\ \A m \in 1 .. (n - 1) : ka[m] = kb[m]
            /\ ka[n] > kb[n]

\* file_names.sort(reverse=True)
RECURSIVE SortReverse(_)
SortReverse(S) ==
    IF S = {} THEN <<>>
    ELSE LET top == CHOOSE a \in S : \A b \in S \ {a} : NameGreater(a, b)
         IN  <<top>> \o SortReverse(S \ {top})

\* get_file_names(folder, '.tif'): the names of the files of the folder.
GetFileNames(folder) == { f.name : f \in folder }

\* 'ASTGTM2' in file_name
IsAstgtm2(name) == name.product = "ASTGTM2"

\* re.findall(r'-?\d+\.?\d*', file_name) on an ASTGTM2 name: the digit runs
\* '2', the latitude and the longitude.
FindNumbers(name) == <<2, name.lat, name.lon>>

\* name_lat == '51'
InBand51(name) == FindNumbers(name)[2] = 51

\* name_log == '001'
IsLongitude001(name) == FindNumbers(name)[3] = 1

\* The file of the folder with the given name.
FileOf(folder, name) == CHOOSE f \in folder : f.name = name

-----------------------------------------------------------------------------
(* The merge step: arrays *)

\* A plausible slip: the merge started from an empty 2-D array.
EmptyArray2D == [dim |-> 2, rows |-> 0, cols |-> <<>>]

\* A 2-D array is kept as its row count and the sequence of its columns,
\* each column labelled by the tile and the column index it came from.
\* dem_merge = [] is the 1-D empty array.
EmptyList == [dim |-> 1, rows |-> 0, cols |-> <<>>]

\* gdal_data.ReadAsArray() of a tile file.
ReadAsArray(f) ==
    [dim |-> 2, rows |-> f.rows, cols |-> [j \in 1 .. f.ncols |-> <<f.name, j>>]]

\* np.concatenate((a, b), axis=1): both must have the same number of
\* dimensions and the same row count, else ValueError (ok = FALSE).
Concatenate(a, b) ==
    IF a.dim # b.dim \/ a.rows # b.rows
    THEN [ok |-> FALSE, array |-> a]
    ELSE [ok |-> TRUE, array |-> [dim |-> 2, rows |-> a.rows, cols |-> a.cols \o b.cols]]

\* get_dem_info(gdal.Open(path)): the geotransform and projection of a file.
GetDemInfo(f) == [gt |-> f.gt, proj |-> f.proj]

\* file_names[0]
LeftTopName(names) == names[1]

\* write_dem(path, d_array, rows, cols, band, gt, proj): the file written.
WriteDem(array, gt, proj) ==
    [exists |-> TRUE, rows |-> array.rows, cols |-> array.cols, gt |-> gt, proj |-> proj]

NoFile == [exists |-> FALSE, rows |-> 0, cols |-> <<>>, gt |-> <<>>, proj |-> ""]

-----------------------------------------------------------------------------
(* The merge step: inputs *)

\* Candidate files of the reformed-tile folder: four tiles of latitude band
\* 51 (from west to east W002, W001, E000, E001), a tile of band 52, and a
\* raster of another product.
TileNames ==
    { TileName("ASTGTM2", 51, "W", 2), TileName("ASTGTM2", 51, "W", 1),
      TileName("ASTGTM2", 51, "E", 0), TileName("ASTGTM2", 51, "E", 1),
      TileName("ASTGTM2", 52, "W", 1), TileName("SRTM", 51, "W", 1) }

\* <<rows, columns>> of a reformed tile.
TileShapes == { <<2, 2>>, <<2, 3>>, <<3, 2>> }

\* Degrees east of Greenwich of a tile's west edge.
WestEdge(name) == IF name.ew = "W" THEN -name.lon ELSE name.lon

\* A tile file: its georeference places its top-left corner at the tile's
\* west and north edges (half units).
TileFile(name, shape) ==
    [name |-> name, rows |-> shape[1], ncols |-> shape[2],
     gt |-> <<2 * WestEdge(name), 1, 0, 2 * (name.lat + 1), 0, -1>>,
     proj |-> IF name.product = "ASTGTM2" THEN "EPSG:4326" ELSE "EPSG:3035"]

\* A merged DEM left by an earlier run.
OldMerged ==
    [exists |-> TRUE, rows |-> 1, cols |-> << <<"old", 1>> >>,
     gt |-> <<0, 1, 0, 0, 0, -1>>, proj |-> "EPSG:4326"]

SamplerIdle ==
    /\ dem_gcs = [array |-> <<>>, gt |-> <<>>, nodata |-> NoSentinel, rows |-> 0, cols |-> 0]
    /\ site_latlng = <<>>
    /\ pc = "idle"
    /\ gdal_array = <<>>
    /\ i = 0
    /\ site_ele = <<>>
    /\ returned = <<>>
    /\ earlier = NoEarlier

\* The reformed-tile folder holds up to MaxTiles files.
InitMerge ==
    /\ \E names \in SUBSET TileNames :
          /\ Cardinality(names) <= MaxTiles
          /\ \E shape \in [names -> TileShapes] :
                reform = { TileFile(n, shape[n]) : n \in names }
    /\ merged \in {NoFile, OldMerged}
    /\ mpc = "list"
    /\ file_names = <<>>
    /\ k = 0
    /\ dem_merge = EmptyList
    /\ lt = [gt |-> <<>>, proj |-> ""]
    /\ SamplerIdle
    /\ TrimIdle
    /\ WarpIdle
    /\ ListIdle
    /\ WriteIdle
    /\ PipeIdle

-----------------------------------------------------------------------------
(* The merge step: run_PyDEM_London_ASTGDEMv20.py In[4] *)

\* Lines 166-170: dem_merge = [], list the folder, sort the names.
ListReformed ==
    /\ mpc = "list"
    /\ dem_merge' = EmptyList
    /\ file_names' = SortReverse(GetFileNames(reform))
    /\ k' = 1
    /\ mpc' = "loop"
    /\ UNCHANGED <<reform, lt, merged>>
    /\ UNCHANGED offMerge

\* Lines 172-194: one pass of the loop over file_names.
MergeTile ==
    /\ mpc = "loop"
    /\ k <= Len(file_names)
    /\ LET file_name == file_names[k]
           gdal_data == ReadAsArray(FileOf(reform, file_name))
       IN  IF IsAstgtm2(file_name) /\ InBand51(file_name)
           THEN IF IsLongitude001(file_name)
                THEN /\ dem_merge' = gdal_data
                     /\ k' = k + 1
                     /\ mpc' = "loop"
                ELSE LET cat == Concatenate(dem_merge, gdal_data)
                     IN  IF cat.ok
                         THEN /\ dem_merge' = cat.array
                              /\ k' = k + 1
                              /\ mpc' = "loop"
                         ELSE /\ mpc' = "fault"
                              /\ UNCHANGED <<dem_merge, k>>
           ELSE /\ k' = k + 1
                /\ UNCHANGED <<dem_merge, mpc>>
    /\ UNCHANGED <<reform, file_names, lt, merged>>
    /\ UNCHANGED offMerge

\* Lines 196-208: print the merged shape (a list has none: AttributeError),
\* read the georeference of file_names[0] (IndexError on an empty listing),
\* remove an existing output file and write the merged DEM.
FinishMerge ==
    /\ mpc = "loop"
    /\ k > Len(file_names)
    /\ IF dem_merge.dim # 2 \/ file_names = <<>>
       THEN /\ mpc' = "fault"
            /\ UNCHANGED <<lt, merged>>
       ELSE /\ lt' = GetDemInfo(FileOf(reform, LeftTopName(file_names)))
            /\ merged' = WriteDem(dem_merge, lt'.gt, lt'.proj)
            /\ mpc' = "done"
    /\ UNCHANGED <<reform, file_names, k, dem_merge>>
    /\ UNCHANGED offMerge

NextMerge == ListReformed \/ MergeTile \/ FinishMerge

SpecMerge == InitMerge /\ [][NextMerge]_vars

-----------------------------------------------------------------------------
(* Properties of the merge step *)

\* The tiles the merge selects: ASTGTM2 tiles of latitude band 51.
Selected == { f \in reform : f.name.product = "ASTGTM2" /\ f.name.lat = 51 }

\* The columns of a set of tiles, from the westmost tile to the eastmost.
RECURSIVE WestToEast(_)
WestToEast(S) ==
    IF S = {} THEN <<>>
    ELSE LET w == CHOOSE f \in S : \A g \in S : WestEdge(f.name) <= WestEdge(g.name)
         IN  [j \in 1 .. w.ncols |-> <<w.name, j>>] \o WestToEast(S \ {w})

Westmost(S) == CHOOSE f \in S : \A g \in S : WestEdge(f.name) <= WestEdge(g.name)

\* The selected tile that comes first in the descending sort by name.
FirstSorted(S) == CHOOSE f \in S : \A g \in S \ {f} : NameGreater(f.name, g.name)

MergeEnded == mpc \in {"done", "fault"}

\* C8 (as claimed): whenever the selected tiles are two adjacent tiles of
\* the band with the same shape, the merge step ends with a merged raster
\* written whose column count is the sum of the two tiles' column counts and
\* whose row count is their common row count.
C8_TwoTilesMerged ==
    \A f, g \in Selected :
        ( /\ Selected = {f, g}
          /\ WestEdge(g.name) = WestEdge(f.name) + 1
          /\ f.rows = g.rows /\ f.ncols = g.ncols
          /\ MergeEnded )
        => /\ mpc = "done"
           /\ Len(merged.cols) = f.ncols + g.ncols
           /\ merged.rows = f.rows

\* C9 (as claimed): the merged raster written holds the columns of every
\* selected tile exactly once, those of a tile further west before those of
\* a tile further east.
C9_WestToEastOnce ==
    mpc = "done" => merged.cols = WestToEast(Selected)

\* C10 (as claimed): the merged raster written carries the geotransform and
\* projection of the westmost selected tile (the first selected tile of the
\* descending sort).
C10_GeorefOfWestmostSelected ==
    mpc = "done" =>
        \E f \in {Westmost(Selected), FirstSorted(Selected)} :
            /\ merged.gt = f.gt
            /\ merged.proj = f.proj

\* C11: when no file of the folder is a tile of the band, the merge step
\* ends in a fault: it never completes, and the merged DEM file is left as it
\* was (nothing is written, in particular no raster without columns).
C11_NoTileNoRaster ==
    Selected = {} =>
        /\ mpc # "done"
        /\ merged \in {NoFile, OldMerged}
        /\ (mpc = "loop" /\ k > Len(file_names)) => dem_merge = EmptyList

C11_Witness ==
    /\ Selected = {}
    /\ reform # {}
    /\ mpc = "fault"
    /\ k > Len(file_names)
    /\ merged = OldMerged

\* C12 (as claimed): when two selected tiles differ in row count the merge
\* step does not complete and the merged DEM file is left as it was.
C12_RowMismatchAborts ==
    (\E f, g \in Selected : f.rows # g.rows) =>
        /\ mpc # "done"
        /\ merged \in {NoFile, OldMerged}

-----------------------------------------------------------------------------
(* The trim step: run_PyDEM_London_ASTGDEMv20.py In[3] *)

\* np.delete(array, -1, axis=0): the array without its last row.
DeleteLastRow(array) ==
    [r \in 0 .. Cardinality(DOMAIN array) - 2 |-> array[r]]

\* np.delete(array, -1, axis=1): the array without its last column.
DeleteLastColumn(array) ==
    [r \in DOMAIN array |->
        [c \in 0 .. Cardinality(DOMAIN array[r]) - 2 |-> array[r][c]]]

\* What a NaN becomes when a float array is written to an unsigned 16-bit
\* band: the conversion of NaN to an integer is not defined, a build gives 0
\* or the largest value, the same at every write.
NaNAsUInt16 == {0, 65535}

\* WriteArray of a float cell onto a GDT_UInt16 band (the default d_type of
\* write_dem): the value is clamped to 0 .. 65535.
ToUInt16(cell, nanAs) ==
    IF cell.nan THEN nanAs
    ELSE IF cell.v < 0 THEN 0
    ELSE IF cell.v > 65535 THEN 65535
    ELSE cell.v

\* data.GetRasterBand(1).WriteArray(d_array[0]) of write_dem.
WriteArray(array, nanAs) ==
    [r \in DOMAIN array |->
        [c \in DOMAIN array[r] |-> ToUInt16(array[r][c], nanAs)]]

\* The file write_dem creates for a trimmed tile: the array's shape, the
\* given geotransform and projection, no no-data value.
WriteTile(name, array, gt, proj, nanAs) ==
    [name |-> name,
     rows |-> Cardinality(DOMAIN array),
     ncols |-> IF DOMAIN array = {} THEN 0 ELSE Cardinality(DOMAIN array[0]),
     gt |-> gt, proj |-> proj, nodata |-> NoSentinel,
     array |-> WriteArray(array, nanAs)]

\* Files of the source folder: two tiles of band 51 and one of band 52.
SourceNames ==
    { TileName("ASTGTM2", 51, "W", 1), TileName("ASTGTM2", 51, "E", 0),
      TileName("ASTGTM2", 52, "W", 1) }

\* <<rows, columns>> of a source tile.
SourceShapes == { <<2, 3>>, <<3, 2>>, <<3, 3>> }

\* Cells of a source tile: all different and positive, or with a void
\* (-9999) in the top-left cell.
SourceArray(shape, void) ==
    [r \in 0 .. shape[1] - 1 |->
        [c \in 0 .. shape[2] - 1 |->
            IF void /\ r = 0 /\ c = 0 THEN -9999 ELSE r * shape[2] + c + 1]]

\* <<void cell?, no-data value>> of a source tile: no sentinel declared; a
\* void cell holding the declared sentinel; a sentinel that is a value of
\* the unsigned 16-bit range and occurs in the tile.
SourceContents ==
    { <<FALSE, NoSentinel>>, <<TRUE, Sentinel(-9999)>>, <<FALSE, Sentinel(1)>> }

SourceFile(name, shape, content) ==
    [name |-> name, rows |-> shape[1], ncols |-> shape[2],
     gt |-> TileFile(name, shape).gt, proj |-> TileFile(name, shape).proj,
     nodata |-> content[2], array |-> SourceArray(shape, content[1])]

\* A reformed tile left in the reformed folder by an earlier run.
StaleReformed ==
    [name |-> TileName("ASTGTM2", 51, "W", 1), rows |-> 1, ncols |-> 1,
     gt |-> <<0, 1, 0, 0, 0, -1>>, proj |-> "EPSG:4326", nodata |-> NoSentinel,
     array |-> [r \in {0} |-> [c \in {0} |-> 7]]]

\* The source folder holds up to MaxTiles tiles; the reformed folder is empty
\* or holds a file of an earlier run.
InitTrim ==
    /\ \E names \in SUBSET SourceNames :
          /\ Cardinality(names) <= MaxTiles
          /\ \E shape \in [names -> SourceShapes], content \in [names -> SourceContents] :
                source = { SourceFile(n, shape[n], content[n]) : n \in names }
    /\ nan_as \in NaNAsUInt16
    /\ rerun = NoRerun
    /\ reform \in { {}, {StaleReformed} }
    /\ mpc = "trim"
    /\ file_names = <<>>
    /\ k = 0
    /\ dem_merge = EmptyList
    /\ lt = [gt |-> <<>>, proj |-> ""]
    /\ merged = NoFile
    /\ SamplerIdle
    /\ WarpIdle
    /\ ListIdle
    /\ WriteIdle
    /\ PipeIdle

\* Lines 126-127: list the source folder, sort the names.
ListSource ==
    /\ mpc = "trim"
    /\ file_names' = SortReverse(GetFileNames(source))
    /\ k' = 1
    /\ mpc' = "trimloop"
    /\ UNCHANGED <<source, nan_as, rerun, reform, dem_merge, lt, merged>>
    /\ UNCHANGED offTrim

\* A plausible slip: the reformed tile written over the source tile.
SourceFolderOverwritten(folder, tile) ==
    { f \in folder : f.name # tile.name } \cup {tile}

\* Lines 147-152: path = PATH_ASTGDEM_REFORM; the source folder was opened
\* for reading only and the file is written under the other folder.
SourceFolderAfterWrite(folder, tile) == folder

\* Lines 129-152: one pass of the loop: read the tile as floats, turn the
\* sentinel cells into NaN, delete the last row and the last column, remove
\* a reformed file of the same name and write the new one.
TrimTile ==
    /\ mpc = "trimloop"
    /\ k <= Len(file_names)
    /\ LET file_name == file_names[k]
           gdal_data == FileOf(source, file_name)
           info == GetDemInfo(gdal_data)
           dem_reform == DeleteLastColumn(DeleteLastRow(
                             MaskNoData(gdal_data.array, gdal_data.nodata)))
           tile == WriteTile(file_name, dem_reform, info.gt, info.proj, nan_as)
       IN  /\ reform' = { f \in reform : f.name # file_name } \cup {tile}
           /\ source' = SourceFolderAfterWrite(source, tile)
    /\ k' = k + 1
    /\ UNCHANGED <<nan_as, rerun, mpc, file_names, dem_merge, lt, merged>>
    /\ UNCHANGED offTrim

\* Line 154: the loop is over; the script goes on to the merge step.
EndTrim ==
    /\ mpc = "trimloop"
    /\ k > Len(file_names)
    /\ mpc' = "list"
    /\ UNCHANGED <<source, nan_as, rerun, reform, file_names, k, dem_merge, lt, merged>>
    /\ UNCHANGED offTrim

NextTrim == ListSource \/ TrimTile \/ EndTrim

SpecTrim == InitTrim /\ [][NextTrim]_vars

\* The source tiles whose pass of the loop is over.
Trimmed == { f \in source : \E n \in 1 .. k - 1 : n <= Len(file_names) /\ file_names[n] = f.name }

\* C13 (as claimed): every trimmed source tile of shape (r, c) has a reformed
\* file of the same name, of shape (r-1, c-1), with the source tile's
\* geotransform and projection, whose cell [i, j] is the source's cell [i, j].
C13_TrimKeepsCells ==
    \A f \in Trimmed :
        \E g \in reform :
            /\ g.name = f.name
            /\ g.rows = f.rows - 1
            /\ g.ncols = f.ncols - 1
            /\ g.gt = f.gt
            /\ g.proj = f.proj
            /\ \A r \in 0 .. f.rows - 2, c \in 0 .. f.ncols - 2 :
                  g.array[r][c] = f.array[r][c]

-----------------------------------------------------------------------------
(* The trim step followed by the merge step, and the two run again *)

\* The script is started again on the same folders once its trim and merge
\* steps are over (merged, or stopped by an exception): what the first run
\* left is remembered, the script's names start afresh, the files stay.
RunAgain ==
    /\ mpc \in {"done", "fault"}
    /\ ~rerun.set
    /\ rerun' = [set |-> TRUE, reform |-> reform, merged |-> merged, ended |-> mpc]
    /\ mpc' = "trim"
    /\ file_names' = <<>>
    /\ k' = 0
    /\ dem_merge' = EmptyList
    /\ lt' = [gt |-> <<>>, proj |-> ""]
    /\ UNCHANGED <<source, nan_as, reform, merged>>
    /\ UNCHANGED offTrim

NextTrimMerge == NextTrim \/ NextMerge \/ RunAgain

SpecTrimMerge == InitTrim /\ [][NextTrimMerge]_vars

\* C24: no step of trim and merge changes the source-tile folder or a file
\* of the DEM folder other than the merged DEM, and when trim and merge
\* have run a second time on the same source folder, the reformed tiles
\* and the merged raster are those the first run left and the run ends as
\* the first did.
C24_SourceKeptRerunSame ==
    /\ [][source' = source /\ fs' = fs]_vars
    /\ []((rerun.set /\ mpc \in {"done", "fault"}) =>
            /\ reform = rerun.reform
            /\ merged = rerun.merged
            /\ mpc = rerun.ended)

C24_Witness ==
    /\ rerun.set
    /\ mpc = "done"
    /\ Cardinality(source) = 2
    /\ \E f \in source : f.nodata.set
    /\ merged.exists
    /\ reform = rerun.reform
    /\ merged = rerun.merged

-----------------------------------------------------------------------------
(* The reprojection steps: transprojcnvt_dem (pyDEM_function.py) as called *)
(* by In[5]..In[9] of run_PyDEM_London_ASTGDEMv20.py, and the same         *)
(* statements written inline in run_PyDEM_London.py.                       *)

\* Files of the DEM folder.
GCS_WD == "ASTGDEMv20_EPSG4326.tif"
GCS_UK == "ASTGDEMv20_EPSG4277.tif"
GCS_EU == "ASTGDEMv20_EPSG4258.tif"
PCS_WD == "ASTGDEMv20_EPSG3857.tif"
PCS_UK == "ASTGDEMv20_EPSG27700.tif"
PCS_EU == "ASTGDEMv20_EPSG3035.tif"

Paths == {GCS_WD, GCS_UK, GCS_EU, PCS_WD, PCS_UK, PCS_EU}

Step(dem_in, epsg_in, dem_out, epsg_out) ==
    [dem_in |-> dem_in, epsg_in |-> epsg_in, dem_out |-> dem_out, epsg_out |-> epsg_out]

\* The reprojection steps of a script, in program order.
ReprojectionSteps(name) ==
    IF name = "ASTGDEMv20"
    THEN << Step(GCS_WD, 4326, GCS_UK, 4277),
            Step(GCS_WD, 4326, GCS_EU, 4258),
            Step(GCS_WD, 4326, PCS_WD, 3857),
            Step(GCS_UK, 4277, PCS_UK, 27700),
            Step(GCS_EU, 4258, PCS_EU, 3035) >>
    ELSE << Step(GCS_WD, 4326, GCS_UK, 4277),
            Step(GCS_WD, 4326, PCS_WD, 3857),
            Step(GCS_UK, 4277, PCS_UK, 27700) >>

\* run_PyDEM_London_ASTGDEMv20.py calls transprojcnvt_dem and then opens the
\* input and the output with gdal.Open and reads their information;
\* run_PyDEM_London.py has the statements inline and opens nothing.
CallsFunction(name) == name = "ASTGDEMv20"

Scripts == {"ASTGDEMv20", "London"}

\* A plausible slip: the tool invoked before the old output is removed.
TransprojBodyWarpFirst == <<"warp", "remove", "return">>

\* The statements of transprojcnvt_dem in program order.
TransprojBody == <<"remove", "warp", "return">>

\* The statements of an inline step of run_PyDEM_London.py.
InlineBody == <<"remove", "warp">>

Body(name) == IF CallsFunction(name) THEN TransprojBody ELSE InlineBody

\* The statement that follows a statement of the body; "after" is the
\* caller's statement after the step.
After(name, label) ==
    LET n == CHOOSE m \in DOMAIN Body(name) : Body(name)[m] = label
    IN  IF n < Len(Body(name)) THEN Body(name)[n + 1] ELSE "after"

\* Files.
Absent == [exists |-> FALSE, valid |-> FALSE, epsg |-> 0, made |-> "none"]
OldFile(epsg) == [exists |-> TRUE, valid |-> TRUE, epsg |-> epsg, made |-> "old"]

\* The coordinate system of the file a path names.
EpsgOf(path) ==
    CASE path = GCS_WD -> 4326
      [] path = GCS_UK -> 4277
      [] path = GCS_EU -> 4258
      [] path = PCS_WD -> 3857
      [] path = PCS_UK -> 27700
      [] OTHER -> 3035

\* gdal.Open(path) gives a dataset (not None).
CanOpen(f) == f.exists /\ f.valid

\* A plausible slip: input and output path exchanged in the command.
GdalwarpCommandSwapped(dem_in, epsg_in, dem_out, epsg_out) ==
    [s_srs |-> epsg_in, t_srs |-> epsg_out, src |-> dem_out, dst |-> dem_in]

\* cmd = 'gdalwarp -s_srs EPSG:<epsg_in> -t_srs EPSG:<epsg_out> <dem_in> <dem_out>'
GdalwarpCommand(dem_in, epsg_in, dem_out, epsg_out) ==
    [s_srs |-> epsg_in, t_srs |-> epsg_out, src |-> dem_in, dst |-> dem_out]

\* What the external tool can do with a command: "ok" writes the warped
\* raster and exits with 0; "failed" writes nothing and "killed" leaves an
\* unfinished file, both with a non-zero exit status.  A source that cannot
\* be opened always fails.
Outcomes(files, cmd) ==
    IF CanOpen(files[cmd.src]) THEN {"ok", "failed", "killed"} ELSE {"failed"}

Gdalwarp(files, cmd, outcome) ==
    CASE outcome = "ok" ->
            [files EXCEPT ![cmd.dst] =
                [exists |-> TRUE, valid |-> TRUE, epsg |-> cmd.t_srs, made |-> "run"]]
      [] outcome = "killed" ->
            [files EXCEPT ![cmd.dst] =
                [exists |-> TRUE, valid |-> FALSE, epsg |-> cmd.t_srs, made |-> "run"]]
      [] OTHER -> files

ExitStatus(outcome) == IF outcome = "ok" THEN 0 ELSE 1

\* A plausible slip: the exit status of the tool handed back.
ReturnStatus(status) == status

\* return 0
ReturnValue(status) == 0

NoArgs == Step("", 0, "", 0)

\* Before the run every file of the folder is absent or left by an earlier
\* run.
InitWarp ==
    /\ script \in Scripts
    /\ fs \in [Paths -> {Absent} \cup { OldFile(EpsgOf(p)) : p \in Paths }]
    /\ \A p \in Paths : fs[p].exists => fs[p].epsg = EpsgOf(p)
    /\ fs0 = fs
    /\ step = 1
    /\ wpc = "begin"
    /\ args = NoArgs
    /\ cmds = <<>>
    /\ ret = -1
    /\ SamplerIdle
    /\ MergeIdle
    /\ TrimIdle
    /\ ListIdle
    /\ WriteIdle
    /\ PipeIdle

\* ASTGDEMv20 lines 220-227 (and 244-251, ...): the step sets its paths and
\* EPSG codes and enters the body.
BeginStep ==
    /\ wpc = "begin"
    /\ step <= Len(ReprojectionSteps(script))
    /\ args' = ReprojectionSteps(script)[step]
    /\ ret' = -1
    /\ wpc' = Body(script)[1]
    /\ UNCHANGED <<fs, fs0, script, step, cmds>>
    /\ UNCHANGED offWarp

\* A plausible slip: the old file left in place.
OsRemoveSkipped(files, path) == files

\* os.remove(path)
OsRemove(files, path) == [files EXCEPT ![path] = Absent]

\* Lines 197-198: if os.path.isfile(dem_out): os.remove(dem_out).
RemoveOutput ==
    /\ wpc = "remove"
    /\ fs' = IF fs[args.dem_out].exists
             THEN OsRemove(fs, args.dem_out)
             ELSE fs
    /\ wpc' = After(script, "remove")
    /\ UNCHANGED <<fs0, script, step, args, cmds, ret>>
    /\ UNCHANGED offWarp

\* Lines 200-201: subprocess.call(cmd, shell=True); the exit status is not
\* looked at.
RunGdalwarp ==
    /\ wpc = "warp"
    /\ LET cmd == GdalwarpCommand(args.dem_in, args.epsg_in, args.dem_out, args.epsg_out)
       IN  \E outcome \in Outcomes(fs, cmd) :
              /\ fs' = Gdalwarp(fs, cmd, outcome)
              /\ cmds' = Append(cmds, [s_srs |-> cmd.s_srs, t_srs |-> cmd.t_srs,
                                       src |-> cmd.src, dst |-> cmd.dst,
                                       exit |-> ExitStatus(outcome)])
    /\ wpc' = After(script, "warp")
    /\ UNCHANGED <<fs0, script, step, args, ret>>
    /\ UNCHANGED offWarp

\* Line 203: return 0.
ReturnZero ==
    /\ wpc = "return"
    /\ ret' = ReturnValue(cmds[Len(cmds)].exit)
    /\ wpc' = After(script, "return")
    /\ UNCHANGED <<fs, fs0, script, step, args, cmds>>
    /\ UNCHANGED offWarp

\* ASTGDEMv20 lines 229-232: gdal.Open(dem_in), gdal.Open(dem_out) and
\* get_dem_info of each; gdal.Open gives None for a file it cannot open and
\* get_dem_info(None, 1) raises AttributeError.  run_PyDEM_London.py goes
\* straight on to the next step.
AfterStep ==
    /\ wpc = "after"
    /\ IF CallsFunction(script)
          /\ ~(CanOpen(fs[args.dem_in]) /\ CanOpen(fs[args.dem_out]))
       THEN /\ wpc' = "fault"
            /\ UNCHANGED step
       ELSE /\ wpc' = "begin"
            /\ step' = step + 1
    /\ UNCHANGED <<fs, fs0, script, args, cmds, ret>>
    /\ UNCHANGED offWarp

\* No reprojection step is left.
EndRun ==
    /\ wpc = "begin"
    /\ step > Len(ReprojectionSteps(script))
    /\ wpc' = "end"
    /\ UNCHANGED <<fs, fs0, script, step, args, cmds, ret>>
    /\ UNCHANGED offWarp

NextWarp ==
    BeginStep \/ RemoveOutput \/ RunGdalwarp \/ ReturnZero \/ AfterStep \/ EndRun

SpecWarp == InitWarp /\ [][NextWarp]_vars

\* The run of the script is over: all steps done, or an exception.
RunOver == wpc \in {"end", "fault"}

\* A reprojection with this output path failed during the run.
FailedInto(path) == \E n \in DOMAIN cmds : cmds[n].dst = path /\ cmds[n].exit # 0

\* C14: whenever the tool is invoked the output path holds no file (an
\* existing one has been removed before), the command carries the step's
\* input path, output path, source and target EPSG code, and when the step's
\* body is over the tool has been invoked once for each step so far.
C14_RemoveThenWarpOnce ==
    /\ [][cmds' # cmds =>
            /\ ~fs[args.dem_out].exists
            /\ cmds' = Append(cmds, cmds'[Len(cmds')])
            /\ cmds'[Len(cmds')].src = args.dem_in
            /\ cmds'[Len(cmds')].dst = args.dem_out
            /\ cmds'[Len(cmds')].s_srs = args.epsg_in
            /\ cmds'[Len(cmds')].t_srs = args.epsg_out]_vars
    /\ [](wpc = "after" => Len(cmds) = step)

C14_Witness ==
    /\ CallsFunction(script)
    /\ wpc = "after"
    /\ fs0[args.dem_out].exists
    /\ Len(cmds) = 1
    /\ cmds[1].dst = args.dem_out

C22_OutputNeverStale ==
    /\ []((CallsFunction(script) /\ wpc = "after") =>
            LET out == fs[args.dem_out]
            IN  \/ ~out.exists /\ cmds[Len(cmds)].exit # 0
                \/ out.exists /\ out.made = "run" /\ out.epsg = args.epsg_out)
    /\ [][(CallsFunction(script) /\ wpc \in {"remove", "warp", "return"}
                                 /\ args.dem_in # args.dem_out)
            => fs'[args.dem_in] = fs[args.dem_in]]_vars

C22_Witness ==
    /\ CallsFunction(script)
    /\ wpc = "after"
    /\ fs0[args.dem_out].exists
    /\ fs0[args.dem_in].exists
    /\ fs[args.dem_in] = fs0[args.dem_in]
    /\ cmds[Len(cmds)].exit # 0
    /\ ~fs[args.dem_out].exists

-----------------------------------------------------------------------------
(* get_elevation: frame, round trip, rotation terms *)

\* C17: no step of get_elevation changes the dataset (cells, geotransform,
\* no-data value) or the caller's coordinate array, and a second call with
\* the same dataset and coordinates returns what the first returned (NaN
\* cells counted as equal to NaN cells).
C17_InputsUntouched ==
    /\ [][dem_gcs' = dem_gcs /\ site_latlng' = site_latlng]_vars
    /\ []((pc = "done" /\ earlier.set) => returned = earlier.val)

C17_Witness ==
    /\ pc = "done"
    /\ earlier.set
    /\ Len(returned) = 2
    /\ returned[1].ele = NaN
    /\ returned[2].ele # NaN
    /\ \E r \in Rows, c \in Cols :
          dem_gcs.nodata.set /\ dem_gcs.array[r][c] = dem_gcs.nodata.v

\* C18: on a raster without rotation terms (pixel width and height are
\* non-zero in every raster), the coordinate the forward mapping gives for
\* an in-bounds cell (r, c) never faults and is reported with row r and
\* column c.
C18_RoundTrip ==
    NorthUp(dem_gcs.gt) =>
        \A j \in 1 .. Len(site_latlng) : \A r \in Rows, c \in Cols :
            site_latlng[j] = Forward(dem_gcs.gt, r, c) =>
                /\ ~(pc = "fault" /\ i = j - 1)
                /\ j \in Completed => (site_ele[j].row = r /\ site_ele[j].col = c)

C18_Witness ==
    /\ pc = "done"
    /\ NorthUp(dem_gcs.gt)
    /\ dem_gcs.gt[2] < 0
    /\ site_latlng = <<Forward(dem_gcs.gt, NRows - 1, NCols - 1), Forward(dem_gcs.gt, 0, 1)>>
    /\ returned[1].row = NRows - 1
    /\ returned[1].col = NCols - 1
    /\ returned[2].row = 0
    /\ returned[2].col = 1

\* The raster that differs from gt in the rotation terms only: none.
NorthUpTwin(gt) == [gt EXCEPT ![3] = 0, ![5] = 0]

\* C19: the row and column reported for a coordinate are those the raster
\* without the rotation terms gives for it.
C19_RotationIgnored ==
    \A j \in Completed :
        /\ site_ele[j].col = XpixelOf(NorthUpTwin(dem_gcs.gt), site_latlng[j][2])
        /\ site_ele[j].row = YlineOf(NorthUpTwin(dem_gcs.gt), site_latlng[j][1])

\* On a raster with rotation terms the coordinate of a cell is reported with
\* another row or column.
C19_Witness ==
    /\ ~NorthUp(dem_gcs.gt)
    /\ pc = "done"
    /\ \E j \in Completed : \E r \in Rows, c \in Cols :
          /\ site_latlng[j] = Forward(dem_gcs.gt, r, c)
          /\ site_ele[j].row # r \/ site_ele[j].col # c

-----------------------------------------------------------------------------
(* get_file_names (pyDEM_function.py) *)

\* "file_type in file": pat occurs in str as a run of consecutive characters.
IsSubstring(pat, str) ==
    \E o \in 0 .. Len(str) - Len(pat) : SubSeq(str, o + 1, o + Len(pat)) = pat

\* The extension of a file name as os.path.splitext gives it: from the last
\* dot to the end, empty when the name has no dot after its first character.
Extension(name) ==
    LET dots == { n \in 2 .. Len(name) : name[n] = "." }
    IN  IF dots = {} THEN <<>>
        ELSE SubSeq(name, CHOOSE n \in dots : \A m \in dots : m <= n, Len(name))

\* Entries a folder can hold: the rasters a.tif and b.tif, a directory d.tif,
\* the side file a.tif.x of a.tif, the raster c.tiff and the text file e.txt.
Candidates ==
    { [name |-> <<"a", ".", "t", "i", "f">>, isfile |-> TRUE],
      [name |-> <<"b", ".", "t", "i", "f">>, isfile |-> TRUE],
      [name |-> <<"d", ".", "t", "i", "f">>, isfile |-> FALSE],
      [name |-> <<"a", ".", "t", "i", "f", ".", "x">>, isfile |-> TRUE],
      [name |-> <<"c", ".", "t", "i", "f", "f">>, isfile |-> TRUE],
      [name |-> <<"e", ".", "t", "x", "t">>, isfile |-> TRUE] }

FileTypes == { <<".", "t", "i", "f">>, <<".", "t", "x", "t">> }

\* The folder holds up to MaxFiles entries, listed in some order.
InitList ==
    /\ entries \in SeqsUpTo(Candidates, MaxFiles)
    /\ \A m, n \in DOMAIN entries : m # n => entries[m] # entries[n]
    /\ file_type \in FileTypes
    /\ gpc = "list"
    /\ file_list = <<>>
    /\ gi = 0
    /\ found = <<>>
    /\ SamplerIdle
    /\ MergeIdle
    /\ TrimIdle
    /\ WarpIdle
    /\ WriteIdle
    /\ PipeIdle

\* The names of a sequence of entries.
NamesOf(seq) == [n \in DOMAIN seq |-> seq[n].name]

\* Lines 19-20: file_names = []; files = the listed names that are regular
\* files.
ListFiles ==
    /\ gpc = "list"
    /\ found' = <<>>
    /\ file_list' = NamesOf(SelectSeq(entries, LAMBDA en : en.isfile))
    /\ gi' = 1
    /\ gpc' = "loop"
    /\ UNCHANGED <<entries, file_type>>
    /\ UNCHANGED offList

\* Lines 21-23: one pass of the loop over files.
MatchFile ==
    /\ gpc = "loop"
    /\ gi <= Len(file_list)
    /\ found' = IF IsSubstring(file_type, file_list[gi])
                THEN Append(found, file_list[gi])
                ELSE found
    /\ gi' = gi + 1
    /\ UNCHANGED <<entries, file_type, gpc, file_list>>
    /\ UNCHANGED offList

\* Line 25: return file_names.
ReturnNames ==
    /\ gpc = "loop"
    /\ gi > Len(file_list)
    /\ gpc' = "done"
    /\ UNCHANGED <<entries, file_type, file_list, gi, found>>
    /\ UNCHANGED offList

NextList == ListFiles \/ MatchFile \/ ReturnNames

SpecList == InitList /\ [][NextList]_vars

\* C20 (as claimed): the returned list is the listing restricted to the
\* regular files whose extension is file_type, in listing order (each name
\* is listed once, so each is returned once).
C20_RegularFilesOfType ==
    gpc = "done" =>
        found = NamesOf(SelectSeq(entries,
                    LAMBDA en : en.isfile /\ Extension(en.name) = file_type))

-----------------------------------------------------------------------------
(* write_dem (pyDEM_function.py; run_PyDEM_London.py has the same body) *)

\* Row and column counts of arrays and of the d_row, d_col arguments.
Extents == {1, 2}

\* d_array as write_dem sees it: its number of dimensions, its rows and
\* columns and, for a 3-D array, its first dimension.
ArrayShapes ==
    { [ndim |-> 1, bands |-> 0, rows |-> 0, cols |-> 2] }
    \cup { [ndim |-> 2, bands |-> 0, rows |-> r, cols |-> c] : r \in Extents, c \in Extents }
    \cup { [ndim |-> 3, bands |-> b, rows |-> r, cols |-> c] :
              b \in 1 .. MaxBands, r \in Extents, c \in Extents }

\* data = None
NoDataset == [created |-> FALSE, georef |-> FALSE, written |-> {}, failed |-> {}]

\* driver.Create(d_path, d_col, d_row, d_band, d_type) gives a dataset (TRUE)
\* or None (FALSE); the GTiff driver creates no dataset without bands.
CreateOutcomes(bands) == IF bands = 0 THEN {FALSE} ELSE {TRUE, FALSE}

\* WriteArray of an array of the given rows and columns onto a band of size
\* <<d_row, d_col>>: an array larger than the band raises ValueError
\* ("raise"); otherwise the band is written ("ok"), or the write fails and
\* the call reports it by its return value ("error": GDAL raises no
\* exception unless gdal.UseExceptions() was called, and the scripts do not
\* call it).
WriteOutcomes(array, size) ==
    IF array.rows > size[1] \/ array.cols > size[2]
    THEN {"raise"}
    ELSE {"ok", "error"}

InitWrite ==
    /\ d_array \in ArrayShapes
    /\ d_size \in Extents \X Extents
    /\ d_band \in 0 .. MaxBands
    /\ data = NoDataset
    /\ wi = 0
    /\ wret = -1
    /\ wdpc = "shape"
    /\ SamplerIdle
    /\ MergeIdle
    /\ TrimIdle
    /\ WarpIdle
    /\ ListIdle
    /\ PipeIdle

\* Lines 72-77: a 3-D array gives the band count, a 2-D array is wrapped
\* into a 3-D one of one band, any other array fails to unpack its shape
\* into (d_row, d_col).
ShapeArray ==
    /\ wdpc = "shape"
    /\ IF d_array.ndim = 3
       THEN /\ d_band' = d_array.bands
            /\ d_size' = <<d_array.rows, d_array.cols>>
            /\ wdpc' = "create"
            /\ UNCHANGED d_array
       ELSE IF d_array.ndim = 2
       THEN /\ d_array' = [d_array EXCEPT !.ndim = 3, !.bands = 1]
            /\ wdpc' = "create"
            /\ UNCHANGED <<d_size, d_band>>
       ELSE /\ wdpc' = "fault"
            /\ UNCHANGED <<d_array, d_size, d_band>>
    /\ UNCHANGED <<data, wi, wret>>
    /\ UNCHANGED offWrite

\* Lines 79-80: driver.Create.
CreateDataset ==
    /\ wdpc = "create"
    /\ \E ok \in CreateOutcomes(d_band) :
          data' = [NoDataset EXCEPT !.created = ok]
    /\ wdpc' = "georef"
    /\ UNCHANGED <<d_array, d_size, d_band, wi, wret>>
    /\ UNCHANGED offWrite

\* Lines 81-83: if data is not None: SetGeoTransform, SetProjection.
SetGeoref ==
    /\ wdpc = "georef"
    /\ data' = IF data.created THEN [data EXCEPT !.georef = TRUE] ELSE data
    /\ wi' = 0
    /\ wdpc' = "loop"
    /\ UNCHANGED <<d_array, d_size, d_band, wret>>
    /\ UNCHANGED offWrite

\* Lines 84-85: data.GetRasterBand(i + 1).WriteArray(d_array[i]).  None has
\* no GetRasterBand (AttributeError) and d_array[i] past the array's first
\* dimension is an IndexError; the value WriteArray returns is not looked at.
WriteBand ==
    /\ wdpc = "loop"
    /\ wi < d_band
    /\ IF ~data.created \/ wi >= d_array.bands
       THEN /\ wdpc' = "fault"
            /\ UNCHANGED <<data, wi>>
       ELSE \E outcome \in WriteOutcomes(d_array, d_size) :
              CASE outcome = "ok" ->
                      /\ data' = [data EXCEPT !.written = @ \cup {wi + 1}]
                      /\ wi' = wi + 1
                      /\ wdpc' = "loop"
                [] outcome = "error" ->
                      /\ data' = [data EXCEPT !.failed = @ \cup {wi + 1}]
                      /\ wi' = wi + 1
                      /\ wdpc' = "loop"
                [] OTHER ->
                      /\ wdpc' = "fault"
                      /\ UNCHANGED <<data, wi>>
    /\ UNCHANGED <<d_array, d_size, d_band, wret>>
    /\ UNCHANGED offWrite

\* Lines 86-88: del data; return 0.
ReturnFromWrite ==
    /\ wdpc = "loop"
    /\ wi >= d_band
    /\ wret' = 0
    /\ wdpc' = "done"
    /\ UNCHANGED <<d_array, d_size, d_band, data, wi>>
    /\ UNCHANGED offWrite

NextWrite == ShapeArray \/ CreateDataset \/ SetGeoref \/ WriteBand \/ ReturnFromWrite

SpecWrite == InitWrite /\ [][NextWrite]_vars

\* C21 (as claimed): write_dem has returned 0 only if the dataset was
\* created, its geotransform and projection were set and each of its d_band
\* bands was written.
C21_ZeroOnlyWhenWritten ==
    wret = 0 =>
        /\ data.created
        /\ data.georef
        /\ data.written = 1 .. d_band

-----------------------------------------------------------------------------
(* The pipeline scripts: which files each step reads and writes *)

\* Source tiles in the folder of source DEMs.
PipeTiles == 2

PipeScripts == {"ASTGDEMv20", "EUDEMv11", "London"}

\* Paths, as <<folder, name>>.
SourceTile(t) == <<"EPSG4326_s", t>>
ReformTile(t) == <<"EPSG4326_r", t>>
AstDem(epsg) == <<"ASTGDEMv20", epsg>>
EuDem(epsg) == <<"EUDEMv11", epsg>>
EuSource == <<"EPSG3035_s", 0>>
StationData == <<"London_AirQuality_Stations.csv", 0>>

PStep(op, src, dst) == [op |-> op, src |-> src, dst |-> dst]

TrimSteps == [t \in 1 .. PipeTiles |-> PStep("trim", SourceTile(t), ReformTile(t))]

\* The steps of each script in program order.
PipelineSteps(name) ==
    CASE name = "ASTGDEMv20" ->
            TrimSteps \o
            << PStep("merge", ReformTile(0), AstDem(4326)),
               PStep("warp", AstDem(4326), AstDem(4277)),
               PStep("warp", AstDem(4326), AstDem(4258)),
               PStep("warp", AstDem(4326), AstDem(3857)),
               PStep("warp", AstDem(4277), AstDem(27700)),
               PStep("warp", AstDem(4258), AstDem(3035)),
               PStep("csv", StationData, StationData),
               PStep("sample", AstDem(4326), AstDem(4326)),
               PStep("sample", AstDem(4277), AstDem(4277)),
               PStep("sample", AstDem(4258), AstDem(4258)) >>
      [] name = "EUDEMv11" ->
            << PStep("warp", EuDem(3035), EuDem(4258)),
               PStep("warp", EuDem(4258), EuDem(4326)),
               PStep("warp", EuDem(4258), EuDem(4277)),
               PStep("csv", StationData, StationData),
               PStep("sample", EuDem(4326), EuDem(4326)),
               PStep("sample", EuDem(4277), EuDem(4277)),
               PStep("sample", EuDem(4258), EuDem(4258)) >>
      [] OTHER ->
            TrimSteps \o
            << PStep("merge", ReformTile(0), AstDem(4326)),
               PStep("warp", AstDem(4326), AstDem(4277)),
               PStep("warp", AstDem(4326), AstDem(3857)),
               PStep("warp", AstDem(4277), AstDem(27700)),
               PStep("info", AstDem(3857), AstDem(3857)),
               PStep("info", AstDem(27700), AstDem(27700)),
               PStep("info", EuSource, EuSource),
               PStep("warp", EuDem(3035), EuDem(4258)),
               PStep("csv", StationData, StationData),
               PStep("sample", AstDem(4326), AstDem(4326)),
               PStep("sample", AstDem(4277), AstDem(4277)),
               PStep("sample", EuDem(4258), EuDem(4258)) >>

\* run_PyDEM_London.py runs gdalwarp inline and goes on; the other two
\* scripts call transprojcnvt_dem and then open the input and the output and
\* read their information.
OpensAfterWarp(name) == name # "London"

\* Files a run starts from: source data, which is there or not, and what
\* an earlier run may have left in the folders the script writes to.
SourcePaths(name) ==
    (IF name = "EUDEMv11" THEN {} ELSE {SourceTile(t) : t \in 1 .. PipeTiles})
        \cup (IF name = "ASTGDEMv20" THEN {} ELSE {EuDem(3035)})
        \cup (IF name = "London" THEN {EuSource} ELSE {})
        \cup {StationData}

OutputPaths(name) ==
    {PipelineSteps(name)[n].dst : n \in DOMAIN PipelineSteps(name)} \ SourcePaths(name)

PipePaths(name) == SourcePaths(name) \cup OutputPaths(name)

\* The reformed tiles in the folder, as get_file_names lists them.
ReformListed(files) == {t \in 1 .. PipeTiles : files[ReformTile(t)] # "absent"}

\* gdal.Open(path) gives a dataset: the file is there and complete.
Opens(files, path) == files[path] \in {"source", "stale", "fresh"}

\* One file read by a step: which step, which path, what the file was.
ReadOf(n, files, path) == [step |-> n, path |-> path, was |-> files[path]]

\* The reads of existing files among the given paths.
ReadsOf(n, files, paths) ==
    {ReadOf(n, files, q) : q \in {r \in paths : files[r] # "absent"}}

PipeFault == -1

InitPipe ==
    /\ pl_script \in PipeScripts
    /\ pl_step = 1
    /\ \E given \in [SourcePaths(pl_script) \ {StationData} -> {"absent", "source"}],
          left \in [OutputPaths(pl_script) -> {"absent", "stale"}] :
          pl_files = [q \in PipePaths(pl_script) |->
                         CASE q = StationData -> "source"
                           [] q \in SourcePaths(pl_script) -> given[q]
                           [] OTHER -> left[q]]
    /\ pl_read = {}
    /\ SamplerIdle /\ MergeIdle /\ TrimIdle /\ WarpIdle /\ ListIdle /\ WriteIdle

PipeAt(op) ==
    /\ pl_step \in DOMAIN PipelineSteps(pl_script)
    /\ PipelineSteps(pl_script)[pl_step].op = op

PipeNow == PipelineSteps(pl_script)[pl_step]

\* One pass of the trim loop: a tile that get_file_names lists in the
\* source folder is read, the reformed file of the same name is removed and
\* written again; write_dem can raise.  A tile that is not in the folder has
\* no pass.
PipeTrim ==
    /\ PipeAt("trim")
    /\ IF pl_files[PipeNow.src] = "absent"
       THEN /\ pl_step' = pl_step + 1
            /\ UNCHANGED <<pl_files, pl_read>>
       ELSE /\ pl_read' = pl_read \cup ReadsOf(pl_step, pl_files, {PipeNow.src})
            /\ \E written \in BOOLEAN :
                  IF written
                  THEN /\ pl_files' = [pl_files EXCEPT ![PipeNow.dst] = "fresh"]
                       /\ pl_step' = pl_step + 1
                  ELSE /\ pl_files' = [pl_files EXCEPT ![PipeNow.dst] = "absent"]
                       /\ pl_step' = PipeFault
    /\ UNCHANGED pl_script
    /\ UNCHANGED offPipe

\* The merge step: every file get_file_names lists in the folder of reformed
\* tiles is opened and read; with none, dem_merge stays a list and .shape
\* raises.  The merged DEM is removed and written again; the concatenation
\* or write_dem can raise, before or after the old file is removed.
PipeMerge ==
    /\ PipeAt("merge")
    /\ LET listed == {ReformTile(t) : t \in ReformListed(pl_files)}
       IN  /\ pl_read' = pl_read \cup ReadsOf(pl_step, pl_files, listed)
           /\ IF listed = {}
              THEN /\ pl_step' = PipeFault
                   /\ UNCHANGED pl_files
              ELSE \E end \in {"written", "raised", "removed"} :
                      CASE end = "written" ->
                              /\ pl_files' = [pl_files EXCEPT ![PipeNow.dst] = "fresh"]
                              /\ pl_step' = pl_step + 1
                        [] end = "raised" ->
                              /\ pl_step' = PipeFault
                              /\ UNCHANGED pl_files
                        [] OTHER ->
                              /\ pl_files' = [pl_files EXCEPT ![PipeNow.dst] = "absent"]
                              /\ pl_step' = PipeFault
    /\ UNCHANGED pl_script
    /\ UNCHANGED offPipe

\* A reprojection step: the old output is removed, gdalwarp reads the input
\* if it is there and writes the output, writes nothing, or leaves it
\* unfinished.  Where the script then opens both files, a file that does not
\* open makes get_dem_info raise.
PipeWarp ==
    /\ PipeAt("warp")
    /\ pl_read' = pl_read \cup ReadsOf(pl_step, pl_files, {PipeNow.src})
    /\ \E outcome \in IF Opens(pl_files, PipeNow.src)
                      THEN {"ok", "failed", "killed"} ELSE {"failed"} :
          LET after ==
                [pl_files EXCEPT ![PipeNow.dst] =
                    CASE outcome = "ok" -> "fresh"
                      [] outcome = "killed" -> "partial"
                      [] OTHER -> "absent"]
          IN  /\ pl_files' = after
              /\ pl_step' =
                    IF OpensAfterWarp(pl_script)
                       /\ ~(Opens(after, PipeNow.src) /\ Opens(after, PipeNow.dst))
                    THEN PipeFault
                    ELSE pl_step + 1
    /\ UNCHANGED pl_script
    /\ UNCHANGED offPipe

\* gdal.Open of a DEM (or of the files of a source folder) and
\* get_dem_info on what it gives; None makes get_dem_info raise.
PipeInfo ==
    /\ PipeAt("info")
    /\ pl_read' = pl_read \cup ReadsOf(pl_step, pl_files, {PipeNow.src})
    /\ pl_step' = IF Opens(pl_files, PipeNow.src) \/ PipeNow.src = EuSource
                  THEN pl_step + 1
                  ELSE PipeFault
    /\ UNCHANGED <<pl_script, pl_files>>
    /\ UNCHANGED offPipe

\* read_csv of the station file.
PipeCsv ==
    /\ PipeAt("csv")
    /\ pl_read' = pl_read \cup ReadsOf(pl_step, pl_files, {PipeNow.src})
    /\ pl_step' = pl_step + 1
    /\ UNCHANGED <<pl_script, pl_files>>
    /\ UNCHANGED offPipe

\* A sampling step: gdal.Open of the DEM, get_dem_info, get_elevation.
PipeSample ==
    /\ PipeAt("sample")
    /\ pl_read' = pl_read \cup ReadsOf(pl_step, pl_files, {PipeNow.src})
    /\ pl_step' = IF Opens(pl_files, PipeNow.src) THEN pl_step + 1 ELSE PipeFault
    /\ UNCHANGED <<pl_script, pl_files>>
    /\ UNCHANGED offPipe

NextPipe == PipeTrim \/ PipeMerge \/ PipeWarp \/ PipeInfo \/ PipeCsv \/ PipeSample

SpecPipe == InitPipe /\ [][NextPipe]_vars

\* C23 (as claimed): in a run of a pipeline script every file a step reads
\* is source data or was written by an earlier step of the same run.
C23_ReadsSourceOrOwnOutput ==
    \A r \in pl_read : r.was \in {"source", "fresh", "partial"}

\* What does hold of the order of the steps: every read of the merged DEM or
\* of a reprojected DEM is a read of a file written earlier in the same run.
PipeOutputsReadFresh ==
    \A r \in pl_read :
        r.path \in {AstDem(e) : e \in {4326, 4277, 4258, 3857, 27700, 3035}}
                   \cup {EuDem(e) : e \in {4258, 4326, 4277}}
            => r.was \in {"fresh", "partial"}

-----------------------------------------------------------------------------
(* get_elevation of run_PyDEM_London.py, run after get_elevation of *)
(* pyDEM_function.py on the same dataset and coordinate array       *)

\* Xpixel = int(round((Xgeo[i] - gt[0]) / gt[1]))
XpixelLondon(gt, Xgeo) == PyRound(Xgeo - gt[1], gt[2])

\* A plausible slip: int() of the quotient without round().
YlineLondonTruncated(gt, Ygeo) ==
    LET num == Ygeo - gt[4]
        n == IF num < 0 THEN -num ELSE num
        d == IF gt[6] < 0 THEN -gt[6] ELSE gt[6]
    IN  IF (num < 0) = (gt[6] < 0) THEN n \div d ELSE -(n \div d)

\* Yline = int(round((Ygeo[i] - gt[3]) / gt[5]))
YlineLondon(gt, Ygeo) == PyRound(Ygeo - gt[4], gt[6])

\* One row of ele: ele[i, 0] .. ele[i, 5].
EleRecord(idx, lat, lng, row, col, ele) ==
    [index |-> idx, lat |-> lat, lng |-> lng, row |-> row, col |-> col, ele |-> ele]

\* M = site_latlog.shape[0]
M_site(latlog) == Len(latlog)

\* The first copy has ended, with a result or with an exception; the
\* caller keeps how it ended and what it returned and calls the other copy
\* with the same dataset and the same coordinate array.
CallLondon ==
    /\ pc \in {"done", "fault"}
    /\ ~earlier.set
    /\ earlier' = [set |-> TRUE, val |-> [ended |-> pc, result |-> returned]]
    /\ pc' = "call_L"
    /\ gdal_array' = <<>>
    /\ i' = 0
    /\ site_ele' = <<>>
    /\ returned' = <<>>
    /\ UNCHANGED <<dem_gcs, site_latlng>>
    /\ UNCHANGED offSampler

\* London lines 189-202: the geotransform, then the array and its masking,
\* then the result array.
ReadRasterLondon ==
    /\ pc = "call_L"
    /\ gdal_array' = MaskNoData(dem_gcs.array, dem_gcs.nodata)
    /\ site_ele' = [n \in 1 .. M_site(site_latlng) |->
                       EleRecord(0, 0, 0, 0, 0, Num(0))]
    /\ i' = 0
    /\ pc' = "loop_L"
    /\ UNCHANGED <<dem_gcs, site_latlng, returned, earlier>>
    /\ UNCHANGED offSampler

\* London lines 203-231: one pass of the loop body.
SampleSiteLondon ==
    /\ pc = "loop_L"
    /\ i < M_site(site_latlng)
    /\ LET Ygeo == site_latlng[i + 1][1]
           Xgeo == site_latlng[i + 1][2]
           Xpixel == XpixelLondon(dem_gcs.gt, Xgeo)
           Yline == YlineLondon(dem_gcs.gt, Ygeo)
           cell == Lookup(gdal_array, dem_gcs.rows, dem_gcs.cols, Yline, Xpixel)
       IN  IF cell.ok
           THEN /\ site_ele' = [site_ele EXCEPT ![i + 1] =
                                   EleRecord(i, Ygeo, Xgeo, Yline, Xpixel, cell.ele)]
                /\ i' = i + 1
                /\ pc' = "loop_L"
           ELSE /\ site_ele' = [site_ele EXCEPT ![i + 1] =
                                   EleRecord(i, Ygeo, Xgeo, Yline, Xpixel,
                                             site_ele[i + 1].ele)]
                /\ i' = i
                /\ pc' = "fault_L"
    /\ UNCHANGED <<dem_gcs, site_latlng, gdal_array, returned, earlier>>
    /\ UNCHANGED offSampler

\* London line 233: return ele.
ReturnEle ==
    /\ pc = "loop_L"
    /\ i >= M_site(site_latlng)
    /\ returned' = site_ele
    /\ pc' = "done_L"
    /\ UNCHANGED <<dem_gcs, site_latlng, gdal_array, i, site_ele, earlier>>
    /\ UNCHANGED offSampler

NextCopies ==
    \/ ReadRaster \/ SampleSite \/ ReturnSiteEle
    \/ CallLondon
    \/ ReadRasterLondon \/ SampleSiteLondon \/ ReturnEle

SpecCopies == Init /\ [][NextCopies]_vars

\* C25: on the same raster and coordinate list the copy of get_elevation in
\* run_PyDEM_London.py returns exactly the records the copy in
\* pyDEM_function.py returned, and raises exactly when that copy raised.
C25_CopiesAgree ==
    /\ pc = "done_L" =>
          /\ earlier.val.ended = "done"
          /\ returned = earlier.val.result
    /\ pc = "fault_L" => earlier.val.ended = "fault"

C25_Witness ==
    /\ pc = "done_L"
    /\ earlier.val.ended = "done"
    /\ Len(returned) = 2
    /\ returned = earlier.val.result
    /\ \E n \in 1 .. Len(returned) : returned[n].ele = NaN
    /\ \E n \in 1 .. Len(returned) : returned[n].row # 0

C25_WitnessFault ==
    /\ pc = "fault_L"
    /\ earlier.val.ended = "fault"
    /\ i = 1

====
